---------------------------- MODULE Spec2Model ----------------------------
(***************************************************************************)
(* A model of the shift tracker (src/shift-tracker/src/main.cpp): the      *)
(* Shift record with its CSV decode/encode, the file-backed storage, and   *)
(* the Tracker with its add and query operations.                          *)
(*                                                                         *)
(* Text (std::string) is a sequence of one-character strings.  A double is *)
(* a decimal floating-point record [neg, m, e] standing for                *)
(* (-1)^neg * m * 10^e, kept normalised (m has no trailing zero; zero is   *)
(* m = 0, e = 0).  Every decimal of at most 15 significant digits names a  *)
(* distinct double, so within the bounds used here (mantissas below 10^9)  *)
(* equality of these records is equality of the doubles.  The arithmetic   *)
(* of pay() and of the sums is exact on these records; the inputs of the   *)
(* tracker specification are integers and halves, for which the IEEE       *)
(* arithmetic of the program is exact as well.                             *)
(***************************************************************************)
EXTENDS Integers, Sequences, FiniteSets, TLC

-----------------------------------------------------------------------------
(* Bounds of the model *)

\* longest line the codec specification enumerates
MaxLineLen == 5
\* most operations one Tracker run performs
MaxOps == 3
\* most half-day steps the clock takes
MaxTicks == 3

-----------------------------------------------------------------------------
(* Text *)

\* the characters the model uses, in ascending order of their char value
CharOrder == <<"\n", " ", "+", ",", "-", ".",
               "0", "1", "2", "3", "4", "5", "6", "7", "8", "9",
               "a", "b", "e", "n">>

Ord(c) == CHOOSE i \in 1..Len(CharOrder) : CharOrder[i] = c

Digits == <<"0", "1", "2", "3", "4", "5", "6", "7", "8", "9">>

IsDigit(c) == \E i \in 1..10 : Digits[i] = c

DigitVal(c) == (CHOOSE i \in 1..10 : Digits[i] = c) - 1

\* isspace() of the C locale, on the characters of the model
IsSpace(c) == c \in {" ", "\n"}

\* std::string operator< : lexicographic by char value, a proper prefix first
RECURSIVE StrLess(_, _)
StrLess(a, b) ==
    IF b = <<>> THEN FALSE
    ELSE IF a = <<>> THEN TRUE
    ELSE IF Head(a) # Head(b) THEN Ord(Head(a)) < Ord(Head(b))
    ELSE StrLess(Tail(a), Tail(b))

\* std::string::substr(pos, n) with 0-based pos <= size: at most n characters
Substr(s, pos, n) ==
    SubSeq(s, pos + 1, IF pos + n <= Len(s) THEN pos + n ELSE Len(s))

RECURSIVE Pow10(_)
Pow10(n) == IF n = 0 THEN 1 ELSE 10 * Pow10(n - 1)

\* the decimal digits of a natural number, most significant first ("0" for 0)
RECURSIVE NatText(_)
NatText(n) ==
    IF n < 10 THEN <<Digits[n + 1]>>
    ELSE Append(NatText(n \div 10), Digits[(n % 10) + 1])

RECURSIVE Zeros(_)
Zeros(n) == IF n <= 0 THEN <<>> ELSE <<"0">> \o Zeros(n - 1)

-----------------------------------------------------------------------------
(* Doubles *)

RECURSIVE NormMant(_, _)
NormMant(m, e) ==
    IF m = 0 THEN [m |-> 0, e |-> 0]
    ELSE IF m % 10 = 0 THEN NormMant(m \div 10, e + 1)
    ELSE [m |-> m, e |-> e]

WithSign(neg, n) == [neg |-> neg, m |-> n.m, e |-> n.e]

MkNum(neg, m, e) == WithSign(neg, NormMant(m, e))

Zero == [neg |-> FALSE, m |-> 0, e |-> 0]

\* operator== of double: the two zeros are equal
NumEq(a, b) == (a.m = 0 /\ b.m = 0) \/ a = b

Signed(a) == IF a.neg THEN 0 - a.m ELSE a.m

Abs(i) == IF i < 0 THEN 0 - i ELSE i

Min(i, j) == IF i < j THEN i ELSE j

\* the integer that is a / 10^e, for e at most the exponent of a
Scaled(a, e) == Signed(a) * Pow10(a.e - e)

\* operator* of double
NumMul(a, b) == MkNum(a.neg # b.neg, a.m * b.m, a.e + b.e)

\* the double s * 10^e; a zero sum is -0.0 only when both terms were
SumNum(s, e, bothNeg) ==
    IF s = 0 THEN [neg |-> bothNeg, m |-> 0, e |-> 0]
    ELSE MkNum(s < 0, Abs(s), e)

AddAt(a, b, e) == SumNum(Scaled(a, e) + Scaled(b, e), e, a.neg /\ b.neg)

\* operator+ of double
NumAdd(a, b) == AddAt(a, b, Min(a.e, b.e))

GeqAt(a, b, e) == Scaled(a, e) >= Scaled(b, e)

\* operator>= of double
NumGeq(a, b) == GeqAt(a, b, Min(a.e, b.e))

-----------------------------------------------------------------------------
(* Number parsing: std::stod and std::stoi *)

\* first position at or after i that holds no white space
RECURSIVE SkipSpace(_, _)
SkipSpace(s, i) ==
    IF i <= Len(s) /\ IsSpace(s[i]) THEN SkipSpace(s, i + 1) ELSE i

\* first position at or after i that holds no decimal digit
RECURSIVE ScanDigits(_, _)
ScanDigits(s, i) ==
    IF i <= Len(s) /\ IsDigit(s[i]) THEN ScanDigits(s, i + 1) ELSE i

\* the value of the digits s[i] .. s[j-1]
RECURSIVE DigitsVal(_, _, _)
DigitsVal(s, i, j) ==
    IF j <= i THEN 0 ELSE 10 * DigitsVal(s, i, j - 1) + DigitVal(s[j - 1])

IsSign(s, i) == i <= Len(s) /\ s[i] \in {"+", "-"}

IsMinus(s, i) == i <= Len(s) /\ s[i] = "-"

AfterSign(s, i) == IF IsSign(s, i) THEN i + 1 ELSE i

Negate(neg, v) == IF neg THEN 0 - v ELSE v

\* the exponent part at position i: "e", a sign, digits.  Without a digit
\* the "e" is not part of the number and the exponent is 0.
Exponent(s, i) ==
    IF i <= Len(s) /\ s[i] = "e"
    THEN Negate(IsMinus(s, i + 1),
                DigitsVal(s, AfterSign(s, i + 1),
                          ScanDigits(s, AfterSign(s, i + 1))))
    ELSE 0

\* the double mant * 10^scale, whose leading digit has decimal exponent adj
StodRange(neg, mant, scale, adj) ==
    IF mant # 0 /\ (adj > 308 \/ adj < 0 - 308)
    THEN [err |-> "out_of_range", val |-> Zero]
    ELSE [err |-> "none", val |-> MkNum(neg, mant, scale)]

StodValue(neg, mant, scale) ==
    StodRange(neg, mant, scale, scale + Len(NatText(mant)) - 1)

\* the integer digits are s[i1..i2-1], the fraction digits s[f1..i3-1]
StodDigits(s, neg, i1, i2, f1, i3) ==
    IF (i2 - i1) + (i3 - f1) = 0
    THEN [err |-> "invalid_argument", val |-> Zero]
    ELSE StodValue(neg,
                   DigitsVal(s, i1, i2) * Pow10(i3 - f1) + DigitsVal(s, f1, i3),
                   Exponent(s, i3) - (i3 - f1))

\* the integer digits are s[i1..i2-1]; a "." at i2 starts the fraction
StodFrac(s, neg, i1, i2) ==
    IF i2 <= Len(s) /\ s[i2] = "."
    THEN StodDigits(s, neg, i1, i2, i2 + 1, ScanDigits(s, i2 + 1))
    ELSE StodDigits(s, neg, i1, i2, i2, i2)

StodSign(s, i0) ==
    StodFrac(s, IsMinus(s, i0), AfterSign(s, i0),
             ScanDigits(s, AfterSign(s, i0)))

\* std::stod(s): white space, a sign, digits with an optional point, an
\* optional exponent; whatever follows the longest such prefix is ignored.
\* err is "invalid_argument" when no digit was read, "out_of_range" when the
\* value leaves the range of double (the edge decades are rounded to whole
\* powers of ten).  The hexadecimal, "inf" and "nan" forms of strtod need
\* the letters x, i, f, which CharOrder does not contain.
Stod(s) == StodSign(s, SkipSpace(s, 1))

StoiDigits(s, neg, i1, i2) ==
    IF i2 = i1 THEN [err |-> "invalid_argument", val |-> 0]
    ELSE [err |-> "none", val |-> Negate(neg, DigitsVal(s, i1, i2))]

StoiSign(s, i0) ==
    StoiDigits(s, IsMinus(s, i0), AfterSign(s, i0),
               ScanDigits(s, AfterSign(s, i0)))

\* std::stoi(s): white space, a sign, decimal digits; the rest is ignored
Stoi(s) == StoiSign(s, SkipSpace(s, 1))

-----------------------------------------------------------------------------
(* Number formatting: operator<<(ostream&, double) of a fresh ostringstream *)

\* the precision of a stream nobody configured (std::ios_base::precision)
StreamPrecision == 6

\* d + 1 when the remainder r of a division by p is more than half of p, or
\* half of it and d is odd; d otherwise
RoundHalfEven(d, r, p) ==
    IF 2 * r > p \/ (2 * r = p /\ d % 2 = 1) THEN d + 1 ELSE d

RoundTo(q, p) == RoundHalfEven(q \div p, q % p, p)

\* q rounded to the nearest multiple of 10^k, ties to even, divided by 10^k.
\* printf rounds the binary value of the double: a decimal tie is a tie of
\* the double only when the decimal is exactly a double (an integer or a
\* dyadic fraction); the values the specifications below draw with more than
\* StreamPrecision digits are integers.
RoundDiv(q, k) == RoundTo(q, Pow10(k))

\* the digits d of a significand and the decimal exponent X of its first digit
SigOf(d, e) == [digits |-> d, X |-> e + Len(d) - 1]

SigNorm(n) == SigOf(NatText(n.m), n.e)

SigRound(m, e, nd) ==
    IF nd > StreamPrecision
    THEN SigNorm(NormMant(RoundDiv(m, nd - StreamPrecision),
                          e + nd - StreamPrecision))
    ELSE SigNorm(NormMant(m, e))

\* the significant digits (no trailing zero) and the decimal exponent X of
\* the leading digit of a positive value m * 10^e rounded to StreamPrecision
\* significant digits
Significand(m, e) == SigRound(m, e, Len(NatText(m)))

\* an exponent of at least two digits
TwoDigits(t) == IF Len(t) < 2 THEN <<"0">> \o t ELSE t

\* d.ddddde+XX
Scientific(d, k, X) ==
    <<d[1]>> \o (IF k > 1 THEN <<".">> \o SubSeq(d, 2, k) ELSE <<>>)
             \o <<"e", IF X < 0 THEN "-" ELSE "+">>
             \o TwoDigits(NatText(Abs(X)))

\* ddd.ddd, 0.000ddd or ddd000
Fixed(d, k, X) ==
    IF X < 0 THEN <<"0", ".">> \o Zeros(0 - X - 1) \o d
    ELSE IF k <= X + 1 THEN d \o Zeros(X + 1 - k)
    ELSE SubSeq(d, 1, X + 1) \o <<".">> \o SubSeq(d, X + 2, k)

\* printf's %g with precision StreamPrecision: fixed notation while
\* -4 <= X < precision, scientific otherwise; trailing zeros and a bare
\* decimal point are dropped
FormatG(d, k, X) ==
    IF X < 0 - 4 \/ X >= StreamPrecision
    THEN Scientific(d, k, X) ELSE Fixed(d, k, X)

FormatSig(sg) == FormatG(sg.digits, Len(sg.digits), sg.X)

SignText(x) == IF x.neg THEN <<"-">> ELSE <<>>

\* out << x for a double x
FormatDouble(x) ==
    IF x.m = 0 THEN SignText(x) \o <<"0">>
    ELSE SignText(x) \o FormatSig(Significand(x.m, x.e))

-----------------------------------------------------------------------------
(* Shift *)

\* a value-initialised Shift: empty strings, zero doubles
EmptyShift == [date |-> <<>>, hours |-> Zero, hourlyRate |-> Zero, note |-> <<>>]

\* the split loop of fromCSV: a new part at every comma, the rest as the last
RECURSIVE SplitParts(_, _, _)
SplitParts(line, parts, cur) ==
    IF line = <<>> THEN Append(parts, cur)
    ELSE IF Head(line) = ","
    THEN SplitParts(Tail(line), Append(parts, cur), <<>>)
    ELSE SplitParts(Tail(line), parts, Append(cur, Head(line)))

\* lines 40-49 of fromCSV: the Shift, or "Bad number" when a stod threw
FromFields(parts, h, r) ==
    IF h.err # "none" \/ r.err # "none"
    THEN [err |-> "BadNumber", shift |-> EmptyShift]
    ELSE [err   |-> "none",
          shift |-> [date       |-> parts[1],
                     hours      |-> h.val,
                     hourlyRate |-> r.val,
                     note       |-> IF Len(parts) >= 4 THEN parts[4]
                                    ELSE <<>>]]

\* lines 37-49 of fromCSV, on the parts the split loop produced
FromParts(parts) ==
    IF Len(parts) < 3 THEN [err |-> "BadCSV", shift |-> EmptyShift]
    ELSE FromFields(parts, Stod(parts[2]), Stod(parts[3]))

\* Shift::fromCSV(line, lineno).  err is "BadCSV" for the runtime_error
\* "Bad CSV at line ...", "BadNumber" for "Bad number at line ...".
fromCSV(line) == FromParts(SplitParts(line, <<>>, <<>>))

\* Shift::toCSV()
toCSV(s) ==
    s.date \o <<",">> \o FormatDouble(s.hours) \o <<",">>
           \o FormatDouble(s.hourlyRate) \o <<",">> \o s.note

\* Shift::pay()
pay(s) == NumMul(s.hours, s.hourlyRate)

\* field-for-field equality of two Shifts (operator== on each member)
ShiftEq(a, b) ==
    /\ a.date = b.date
    /\ NumEq(a.hours, b.hours)
    /\ NumEq(a.hourlyRate, b.hourlyRate)
    /\ a.note = b.note

-----------------------------------------------------------------------------
(* FileStorage *)

\* the runtime_errors of Shift::fromCSV, the spec's FormatError
FormatError == {"BadCSV", "BadNumber"}

\* the runtime_error of FileStorage::save, the spec's IOError
IOError == {"CannotOpenForWrite"}

\* the lines std::getline yields: the text up to each "\n", and what follows
\* the last "\n" when that is not empty
RECURSIVE GetLines(_, _)
GetLines(content, cur) ==
    IF content = <<>> THEN (IF cur = <<>> THEN <<>> ELSE <<cur>>)
    ELSE IF Head(content) = "\n" THEN <<cur>> \o GetLines(Tail(content), <<>>)
    ELSE GetLines(Tail(content), Append(cur, Head(content)))

\* does the while loop of load keep this line (line 78: if (line.empty()) continue)
KeepLine(line) == line # <<>>

\* the while loop of load: decode every kept line, stop at the first that throws
RECURSIVE LoadLines(_, _)
\* line 79, r being what fromCSV made of the first of lines
LoadDecoded(lines, v, r) ==
    IF r.err # "none" THEN [err |-> r.err, list |-> <<>>]
    ELSE LoadLines(Tail(lines), Append(v, r.shift))

LoadLines(lines, v) ==
    IF lines = <<>> THEN [err |-> "none", list |-> v]
    ELSE IF ~KeepLine(Head(lines)) THEN LoadLines(Tail(lines), v)
    ELSE LoadDecoded(lines, v, fromCSV(Head(lines)))

\* does std::ifstream in(path) open: the file is there and may be read
OpensForRead(st) == st.exists /\ st.readable

\* FileStorage::load() on the backing store st
load(st) ==
    IF ~OpensForRead(st) THEN [err |-> "none", list |-> <<>>]
    ELSE LoadLines(GetLines(st.content, <<>>), <<>>)

\* what the loop of save writes: every record's line and a "\n"
RECURSIVE EncodeAll(_)
EncodeAll(v) ==
    IF v = <<>> THEN <<>>
    ELSE toCSV(Head(v)) \o <<"\n">> \o EncodeAll(Tail(v))

\* FileStorage::save(v) on the backing store st: the error and the store after.
\* std::ofstream out(path) truncates or creates the file when it opens.
save(st, v) ==
    IF ~st.writable THEN [err |-> "CannotOpenForWrite", store |-> st]
    ELSE [err   |-> "none",
          store |-> [exists   |-> TRUE,
                     readable |-> IF st.exists THEN st.readable ELSE TRUE,
                     writable |-> TRUE,
                     content  |-> EncodeAll(v)]]

-----------------------------------------------------------------------------
(* Utilities *)

\* parseISO(ymd): a zeroed tm, with year, month and day read when ymd has at
\* least 10 characters; std::stoi throws when a field has no digit
ParsedISO(y, m, d) ==
    IF y.err # "none" \/ m.err # "none" \/ d.err # "none"
    THEN [err |-> "invalid_argument",
          tm_year |-> 0, tm_mon |-> 0, tm_mday |-> 0]
    ELSE [err |-> "none", tm_year |-> y.val - 1900,
          tm_mon |-> m.val - 1, tm_mday |-> d.val]

parseISO(ymd) ==
    IF Len(ymd) < 10
    THEN [err |-> "none", tm_year |-> 0, tm_mon |-> 0, tm_mday |-> 0]
    ELSE ParsedISO(Stoi(Substr(ymd, 0, 4)), Stoi(Substr(ymd, 5, 2)),
                   Stoi(Substr(ymd, 8, 2)))

SecondsPerDay == 86400

\* days from 1970-01-01 to the first day of month m (1..12) of year y in the
\* proleptic Gregorian calendar
\* days from 0000-03-01 to the first day of the mp-th month after March
\* of the year that starts in March of year yy
DaysFromMarch(yy, mp) ==
    (yy \div 400) * 146097 + (yy % 400) * 365 + (yy % 400) \div 4
        - (yy % 400) \div 100 + (153 * mp + 2) \div 5

\* days from 1970-01-01 to the first day of month m (1..12) of year y in the
\* proleptic Gregorian calendar
DaysToMonth(y, m) ==
    DaysFromMarch(IF m <= 2 THEN y - 1 ELSE y,
                  IF m > 2 THEN m - 3 ELSE m + 9) - 719468

\* utc_timegm(t) = timegm(&t) of a tm at 00:00:00: months outside 0..11 carry
\* into the year, days count on from the first of the month
utc_timegm(t) ==
    (DaysToMonth(t.tm_year + 1900 + t.tm_mon \div 12, (t.tm_mon % 12) + 1)
       + t.tm_mday - 1) * SecondsPerDay

-----------------------------------------------------------------------------
(* Tracker: the query methods as functions of the collection *)

RemoveAt(v, i) == SubSeq(v, 1, i - 1) \o SubSeq(v, i + 1, Len(v))

\* the comparator of listAllSorted: a.date < b.date
DateLess(a, b) == StrLess(a.date, b.date)

\* what std::sort(v.begin(), v.end(), DateLess) may leave in v: the elements
\* of v in an order no pair of which the comparator inverts.  std::sort gives
\* no order to elements the comparator calls equivalent (libstdc++ keeps
\* their order only below 17 elements), so every such order is an outcome.
RECURSIVE SortOutcomes(_)
SortOutcomes(v) ==
    IF v = <<>> THEN {<<>>}
    ELSE UNION { { <<v[i]>> \o rest : rest \in SortOutcomes(RemoveAt(v, i)) } :
                 i \in { k \in 1..Len(v) :
                         \A j \in 1..Len(v) : ~DateLess(v[j], v[k]) } }

\* the copy_if of filterRecentDays, left to right; parseISO's exception ends it
RECURSIVE FilterFrom(_, _, _)
\* the predicate of the copy_if on the first of v, t being its parsed date
FilterParsed(v, cutoff, out, t) ==
    IF t.err # "none" THEN [err |-> t.err, list |-> <<>>]
    ELSE FilterFrom(Tail(v), cutoff,
                    IF utc_timegm(t) >= cutoff
                    THEN Append(out, Head(v)) ELSE out)

FilterFrom(v, cutoff, out) ==
    IF v = <<>> THEN [err |-> "none", list |-> out]
    ELSE FilterParsed(v, cutoff, out, parseISO(Head(v).date))

\* filterRecentDays with the window one day too long
filterRecentDays_ExtraDay(v, days, clk) ==
    FilterFrom(v, clk - (days + 1) * 24 * 3600, <<>>)

\* Tracker::filterRecentDays(days) over the collection v with time(nullptr) = clk
filterRecentDays(v, days, clk) ==
    FilterFrom(v, clk - days * 24 * 3600, <<>>)

\* Tracker::totalPay(v): accumulate from 0.0, left to right
RECURSIVE Accumulate(_, _)
Accumulate(v, acc) ==
    IF v = <<>> THEN acc ELSE Accumulate(Tail(v), NumAdd(acc, pay(Head(v))))

totalPay(v) == Accumulate(v, Zero)

\* std::map<string,double>: the entries in ascending key order.
\* m[key] += x: the entry of key, value-initialised to 0.0 where it is new
RECURSIVE MapAdd(_, _, _)
MapAdd(m, key, x) ==
    IF m = <<>> THEN <<[key |-> key, val |-> NumAdd(Zero, x)]>>
    ELSE IF Head(m).key = key
    THEN <<[key |-> key, val |-> NumAdd(Head(m).val, x)]>> \o Tail(m)
    ELSE IF StrLess(key, Head(m).key)
    THEN <<[key |-> key, val |-> NumAdd(Zero, x)]>> \o m
    ELSE <<Head(m)>> \o MapAdd(Tail(m), key, x)

\* monthlyTotals keyed by the whole date
MonthKey_WholeDate(s) == s.date

\* the key of monthlyTotals: s.date.substr(0,7)
MonthKey(s) == Substr(s.date, 0, 7)

\* Tracker::monthlyTotals(): the loop over the collection
RECURSIVE MonthlyFrom(_, _)
MonthlyFrom(v, m) ==
    IF v = <<>> THEN m
    ELSE MonthlyFrom(Tail(v), MapAdd(m, MonthKey(Head(v)), pay(Head(v))))

monthlyTotals(v) == MonthlyFrom(v, <<>>)

\* the predicate of countHighPay: s.pay() >= threshold
IsHighPay(s, threshold) == NumGeq(pay(s), threshold)

\* Tracker::countHighPay(threshold)
countHighPay(v, threshold) ==
    Cardinality({ i \in 1..Len(v) : IsHighPay(v[i], threshold) })

-----------------------------------------------------------------------------
(* The values the specifications draw their inputs from *)

D0105 == <<"2", "0", "2", "5", "-", "0", "1", "-", "0", "5">>
D0110 == <<"2", "0", "2", "5", "-", "0", "1", "-", "1", "0">>
D0120 == <<"2", "0", "2", "5", "-", "0", "1", "-", "2", "0">>
D0201 == <<"2", "0", "2", "5", "-", "0", "2", "-", "0", "1">>
D0228 == <<"2", "0", "2", "5", "-", "0", "2", "-", "2", "8">>
D0301 == <<"2", "0", "2", "5", "-", "0", "3", "-", "0", "1">>
D0302 == <<"2", "0", "2", "5", "-", "0", "3", "-", "0", "2">>

\* one line of the data file, with its "\n"
FileLine(date, hours, rate, note) ==
    date \o <<",">> \o hours \o <<",">> \o rate \o <<",">> \o note \o <<"\n">>

\* data/shifts.csv as a user or an earlier run may have left it
FileContents ==
    { <<>>,
      FileLine(D0301, <<"5", ".", "5">>, <<"1", "2", ".", "5">>, <<"a">>)
        \o FileLine(D0110, <<"2">>, <<"1", "0">>, <<"a">>)
        \o FileLine(D0110, <<"2">>, <<"1", "0">>, <<"b">>),
      FileLine(D0105, <<"2">>, <<"1", "0">>, <<>>)
        \o FileLine(D0120, <<"3">>, <<"1", "0">>, <<>>)
        \o FileLine(D0201, <<"1">>, <<"1", "0">>, <<>>),
      FileLine(D0301, <<"8">>, <<"1", "2", ".", "5">>, <<"a">>)
        \o <<"\n">>
        \o FileLine(D0302, <<"4">>, <<"1", "0">>, <<"b">>),
      FileLine(D0301, <<"8">>, <<"1", "2", ".", "5">>, <<"a">>)
        \o <<" ", "\n">>,
      FileLine(D0228, <<"1", "2", "3", "4", "5", "6", "7">>, <<"1">>, <<"n">>),
      FileLine(D0301, <<"5", "b">>, <<"1">>, <<"a", ",", "b">>),
      D0301 \o <<",", "5", "\n">> }

InitialStores ==
    { [exists |-> TRUE, readable |-> r, writable |-> w, content |-> c] :
        r \in BOOLEAN, w \in BOOLEAN, c \in FileContents }
    \cup { [exists |-> FALSE, readable |-> FALSE, writable |-> w,
            content |-> <<>>] : w \in BOOLEAN }

\* the Shifts main builds from the arguments of --add
AddInputs ==
    { [date |-> D0301, hours |-> MkNum(FALSE, 55, -1),
       hourlyRate |-> MkNum(FALSE, 125, -1), note |-> <<"a">>],
      [date |-> D0302, hours |-> MkNum(FALSE, 4, 0),
       hourlyRate |-> MkNum(FALSE, 10, 0), note |-> <<"b">>],
      [date |-> D0110, hours |-> MkNum(FALSE, 2, 0),
       hourlyRate |-> MkNum(FALSE, 10, 0), note |-> <<"b">>],
      [date |-> D0228, hours |-> MkNum(FALSE, 1234567, 0),
       hourlyRate |-> MkNum(FALSE, 1, 0), note |-> <<>>] }

\* the arguments of --recent
DayInputs == {0, 1}

\* the thresholds of countHighPay
ThresholdInputs == {MkNum(FALSE, 100, 0), MkNum(FALSE, 20, 0)}

\* 2025-02-28 12:00:00 UTC
Clock0 == utc_timegm(parseISO(D0228)) + 12 * 3600

\* the clock moves in half days
TickStep == 12 * 3600

-----------------------------------------------------------------------------
(* State *)

VARIABLES
    store,    \* the backing file: exists, readable, writable, content
    shifts,   \* Tracker::shifts
    pc,       \* "init" before the Tracker is constructed, "ready" after,
              \* "failed" when the constructor threw
    ret,      \* the last call: its name, arguments, exception and result
    now,      \* what time(nullptr) returns
    nops,     \* the calls made so far
    loaded,   \* history: the records the constructor loaded
    added,    \* history: the Shifts passed to add and what each call threw
    calls,    \* history: the names of the calls made, in order
    cin,      \* codec specification: the input drawn
    cout      \* codec specification: the last call and its result

vars == <<store, shifts, pc, ret, now, nops, loaded, added, calls, cin, cout>>

NoRet ==
    [op |-> "none", err |-> "none", list |-> <<>>, map |-> <<>>, num |-> Zero,
     count |-> 0, s |-> EmptyShift, days |-> 0, clk |-> 0, threshold |-> Zero]

NoInput == [kind |-> "none", line |-> <<>>, shift |-> EmptyShift]

NoOutput == [step |-> "none", err |-> "none", shift |-> EmptyShift, text |-> <<>>]

Init ==
    /\ store \in InitialStores
    /\ shifts = <<>>
    /\ pc = "init"
    /\ ret = NoRet
    /\ now = Clock0
    /\ nops = 0
    /\ loaded = <<>>
    /\ added = <<>>
    /\ calls = <<>>
    /\ cin = NoInput
    /\ cout = NoOutput

-----------------------------------------------------------------------------
(* Actions *)

\* Tracker::Tracker(storage): shifts = storage->load()
Construct ==
    /\ pc = "init"
    /\ \E r \in {load(store)} :
           /\ pc' = IF r.err = "none" THEN "ready" ELSE "failed"
           /\ shifts' = r.list
           /\ loaded' = r.list
           /\ ret' = [NoRet EXCEPT !.op = "construct", !.err = r.err]
    /\ nops' = nops + 1
    /\ calls' = Append(calls, "construct")
    /\ UNCHANGED <<store, now, added, cin, cout>>

\* add that takes the append back when the save throws
Add_Rollback ==
    /\ pc = "ready"
    /\ nops < MaxOps
    /\ \E s \in AddInputs :
         \E r \in {save(store, Append(shifts, s))} :
             /\ shifts' = IF r.err = "none" THEN Append(shifts, s) ELSE shifts
             /\ store' = r.store
             /\ added' = Append(added, [s |-> s, err |-> r.err])
             /\ ret' = [NoRet EXCEPT !.op = "add", !.err = r.err, !.s = s]
    /\ nops' = nops + 1
    /\ calls' = Append(calls, "add")
    /\ UNCHANGED <<pc, now, loaded, cin, cout>>

\* Tracker::add(s): shifts.push_back(s); storage->save(shifts)
Add ==
    /\ pc = "ready"
    /\ nops < MaxOps
    /\ \E s \in AddInputs :
         \E r \in {save(store, Append(shifts, s))} :
             /\ shifts' = Append(shifts, s)
             /\ store' = r.store
             /\ added' = Append(added, [s |-> s, err |-> r.err])
             /\ ret' = [NoRet EXCEPT !.op = "add", !.err = r.err, !.s = s]
    /\ nops' = nops + 1
    /\ calls' = Append(calls, "add")
    /\ UNCHANGED <<pc, now, loaded, cin, cout>>

\* listAllSorted that sorts the collection itself
ListAllSorted_InPlace ==
    /\ pc = "ready"
    /\ nops < MaxOps
    /\ \E v \in SortOutcomes(shifts) :
         /\ ret' = [NoRet EXCEPT !.op = "listAllSorted", !.list = v]
         /\ shifts' = v
    /\ nops' = nops + 1
    /\ calls' = Append(calls, "listAllSorted")
    /\ UNCHANGED <<store, pc, now, loaded, added, cin, cout>>

\* Tracker::listAllSorted(): sort a copy, return it
ListAllSorted ==
    /\ pc = "ready"
    /\ nops < MaxOps
    /\ \E v \in SortOutcomes(shifts) :
         ret' = [NoRet EXCEPT !.op = "listAllSorted", !.list = v]
    /\ nops' = nops + 1
    /\ calls' = Append(calls, "listAllSorted")
    /\ UNCHANGED <<store, shifts, pc, now, loaded, added, cin, cout>>

\* Tracker::filterRecentDays(days)
FilterRecentDays ==
    /\ pc = "ready"
    /\ nops < MaxOps
    /\ \E days \in DayInputs :
         \E r \in {filterRecentDays(shifts, days, now)} :
             ret' = [NoRet EXCEPT !.op = "filterRecentDays", !.err = r.err,
                                  !.list = r.list, !.days = days, !.clk = now]
    /\ nops' = nops + 1
    /\ calls' = Append(calls, "filterRecentDays")
    /\ UNCHANGED <<store, shifts, pc, now, loaded, added, cin, cout>>

\* Tracker::totalPay(v), on the list the call before returned (main's use)
TotalPay ==
    /\ pc = "ready"
    /\ nops < MaxOps
    /\ ret.op \in {"listAllSorted", "filterRecentDays"}
    /\ ret.err = "none"
    /\ ret' = [NoRet EXCEPT !.op = "totalPay", !.list = ret.list,
                            !.num = totalPay(ret.list)]
    /\ nops' = nops + 1
    /\ calls' = Append(calls, "totalPay")
    /\ UNCHANGED <<store, shifts, pc, now, loaded, added, cin, cout>>

\* Tracker::monthlyTotals()
MonthlyTotals ==
    /\ pc = "ready"
    /\ nops < MaxOps
    /\ ret' = [NoRet EXCEPT !.op = "monthlyTotals", !.map = monthlyTotals(shifts)]
    /\ nops' = nops + 1
    /\ calls' = Append(calls, "monthlyTotals")
    /\ UNCHANGED <<store, shifts, pc, now, loaded, added, cin, cout>>

\* Tracker::countHighPay(threshold)
CountHighPay ==
    /\ pc = "ready"
    /\ nops < MaxOps
    /\ \E t \in ThresholdInputs :
         ret' = [NoRet EXCEPT !.op = "countHighPay", !.threshold = t,
                              !.count = countHighPay(shifts, t)]
    /\ nops' = nops + 1
    /\ calls' = Append(calls, "countHighPay")
    /\ UNCHANGED <<store, shifts, pc, now, loaded, added, cin, cout>>

\* a fresh FileStorage(path).load() on the same file
Load ==
    /\ pc # "init"
    /\ nops < MaxOps
    /\ \E r \in {load(store)} :
           ret' = [NoRet EXCEPT !.op = "load", !.err = r.err, !.list = r.list]
    /\ nops' = nops + 1
    /\ calls' = Append(calls, "load")
    /\ UNCHANGED <<store, shifts, pc, now, loaded, added, cin, cout>>

\* the environment: the file or its directory becomes (un)writable
SetWritable ==
    /\ pc = "ready"
    /\ store' = [store EXCEPT !.writable = ~store.writable]
    /\ UNCHANGED <<shifts, pc, ret, now, nops, loaded, added, calls, cin, cout>>

\* the environment: time passes
Tick ==
    /\ now < Clock0 + MaxTicks * TickStep
    /\ now' = now + TickStep
    /\ UNCHANGED <<store, shifts, pc, ret, nops, loaded, added, calls, cin, cout>>

Next ==
    \/ Construct
    \/ Add
    \/ ListAllSorted
    \/ FilterRecentDays
    \/ TotalPay
    \/ MonthlyTotals
    \/ CountHighPay
    \/ Load
    \/ SetWritable
    \/ Tick

Spec == Init /\ [][Next]_vars

-----------------------------------------------------------------------------
(* The codec on its own: fromCSV and toCSV applied to drawn inputs *)

\* the characters of the lines drawn
CodecChars == {",", "1", ".", "e", "a", " "}

\* every line of at most MaxLineLen of these characters
CodecLines == UNION { [1..n -> CodecChars] : n \in 0..MaxLineLen }

\* the doubles drawn: 0, 1, 5.5, 12.5, -2, 1e-05, 1e+06, 123456, 1234567
CodecNums ==
    { Zero, MkNum(FALSE, 1, 0), MkNum(FALSE, 55, -1), MkNum(FALSE, 125, -1),
      MkNum(TRUE, 2, 0), MkNum(FALSE, 1, -5), MkNum(FALSE, 1, 6),
      MkNum(FALSE, 123456, 0), MkNum(FALSE, 1234567, 0) }

\* the Shifts drawn: no field holds a comma
CodecShifts ==
    { [date |-> d, hours |-> h, hourlyRate |-> r, note |-> n] :
        d \in {<<>>, D0301}, h \in CodecNums, r \in CodecNums,
        n \in {<<>>, <<"a">>, <<"a", " ", "b">>} }

CodecInputs ==
    { [kind |-> "line", line |-> l, shift |-> EmptyShift] : l \in CodecLines }
    \cup { [kind |-> "shift", line |-> <<>>, shift |-> sh] : sh \in CodecShifts }

InitCodec ==
    /\ store = [exists |-> FALSE, readable |-> FALSE, writable |-> FALSE,
                content |-> <<>>]
    /\ shifts = <<>>
    /\ pc = "init"
    /\ ret = NoRet
    /\ now = Clock0
    /\ nops = 0
    /\ loaded = <<>>
    /\ added = <<>>
    /\ calls = <<>>
    /\ cin \in CodecInputs
    /\ cout = NoOutput

\* Shift::fromCSV(line, 1) on a drawn line
Decode ==
    /\ cin.kind = "line"
    /\ cout.step = "none"
    /\ \E r \in {fromCSV(cin.line)} :
           cout' = [step |-> "decoded", err |-> r.err, shift |-> r.shift,
                    text |-> <<>>]
    /\ UNCHANGED <<store, shifts, pc, ret, now, nops, loaded, added, calls, cin>>

\* s.toCSV() on a drawn Shift
Encode ==
    /\ cin.kind = "shift"
    /\ cout.step = "none"
    /\ cout' = [step |-> "encoded", err |-> "none", shift |-> cin.shift,
                text |-> toCSV(cin.shift)]
    /\ UNCHANGED <<store, shifts, pc, ret, now, nops, loaded, added, calls, cin>>

\* Shift::fromCSV on the line toCSV returned
DecodeEncoded ==
    /\ cout.step = "encoded"
    /\ \E r \in {fromCSV(cout.text)} :
           cout' = [step |-> "roundtrip", err |-> r.err, shift |-> r.shift,
                    text |-> cout.text]
    /\ UNCHANGED <<store, shifts, pc, ret, now, nops, loaded, added, calls, cin>>

NextCodec ==
    \/ Decode
    \/ Encode
    \/ DecodeEncoded

SpecCodec == InitCodec /\ [][NextCodec]_vars

-----------------------------------------------------------------------------
(* Properties of the storage: C1, C4, C5, C8 *)

SeqShiftEq(a, b) ==
    /\ Len(a) = Len(b)
    /\ \A i \in 1..Len(a) : ShiftEq(a[i], b[i])

AddedShifts == [i \in 1..Len(added) |-> added[i].s]

\* C1: when the store loaded and the first add(s) succeeded, a fresh load()
\* returns the records the constructor loaded, in order, then s, and the
\* re-encoding of what it returns is the stored text, byte for byte.
C1_AddThenFreshLoad ==
    (/\ ret.op = "add"
     /\ ret.err = "none"
     /\ Len(added) = 1
     /\ store.readable)
    => /\ load(store).err = "none"
       /\ SeqShiftEq(load(store).list, Append(loaded, ret.s))
       /\ EncodeAll(load(store).list) = store.content

\* C4: load() returns the empty sequence and no error when the store does
\* not exist, and fails with an IOError when it exists and cannot be read.
C4_UnreadableStoreIsAnError ==
    ret.op \in {"construct", "load"}
    => /\ ~store.exists => (ret.err = "none" /\ ret.list = <<>>)
       /\ (store.exists /\ ~store.readable) => ret.err \in IOError

IsBlank(line) == \A i \in 1..Len(line) : IsSpace(line[i])

RECURSIVE NonBlank(_)
NonBlank(lines) ==
    IF lines = <<>> THEN <<>>
    ELSE IF IsBlank(Head(lines)) THEN NonBlank(Tail(lines))
    ELSE <<Head(lines)>> \o NonBlank(Tail(lines))

\* C5: load() skips every line that is empty after trimming white space and
\* returns the decoding of the other lines in file order; a line of white
\* space alone never makes it fail.
C5_BlankLinesAreSkipped ==
    (ret.op = "load" /\ OpensForRead(store))
    => [err |-> ret.err, list |-> ret.list]
         = LoadLines(NonBlank(GetLines(store.content, <<>>)), <<>>)

\* C8: when the save of add(s) fails, the failure reaches the caller and s
\* stays appended to the collection; the collection is always what was
\* loaded followed by everything passed to add, and every add that succeeds
\* leaves exactly the encoding of the whole collection in the store.
C8_FailedSaveKeepsAppend ==
    /\ pc = "ready" => shifts = loaded \o AddedShifts
    /\ (ret.op = "add" /\ ret.err # "none")
       => (ret.err \in IOError /\ shifts[Len(shifts)] = ret.s)
    /\ (ret.op = "add" /\ ret.err = "none")
       => (store.exists /\ store.content = EncodeAll(shifts))

\* C8 witness: an add succeeded after an earlier add's save had failed, and
\* the store holds both Shifts
C8_Witness ==
    /\ ret.op = "add"
    /\ ret.err = "none"
    /\ Len(added) = 2
    /\ added[1].err \in IOError
    /\ store.content = EncodeAll(loaded \o <<added[1].s, added[2].s>>)

-----------------------------------------------------------------------------
(* Properties of the queries: C2, C3, C9, C10 *)

\* x put behind the last element of the sorted w whose date is not after x's
InsertStable(w, x) ==
    LET k == Cardinality({ i \in 1..Len(w) : ~StrLess(x.date, w[i].date) })
    IN  SubSeq(w, 1, k) \o <<x>> \o SubSeq(w, k + 1, Len(w))

RECURSIVE StableSort(_)
StableSort(v) ==
    IF v = <<>> THEN <<>>
    ELSE InsertStable(StableSort(SubSeq(v, 1, Len(v) - 1)), v[Len(v)])

\* C2: listAllSorted() returns the collection in ascending order of date,
\* Shifts of equal date in their insertion order.
C2_SortIsStable ==
    ret.op = "listAllSorted" => ret.list = StableSort(shifts)

\* the civil date of the day number z (days since 1970-01-01)
CivilFromDays(z) ==
    LET zz  == z + 719468
        era == zz \div 146097
        doe == zz - era * 146097
        yoe == (doe - doe \div 1460 + doe \div 36524 - doe \div 146096) \div 365
        doy == doe - (365 * yoe + yoe \div 4 - yoe \div 100)
        mp  == (5 * doy + 2) \div 153
        d   == doy - (153 * mp + 2) \div 5 + 1
        m   == IF mp < 10 THEN mp + 3 ELSE mp - 9
        y   == yoe + era * 400 + (IF m <= 2 THEN 1 ELSE 0)
    IN  [y |-> y, m |-> m, d |-> d]

Pad2(n) == IF n < 10 THEN <<"0">> \o NatText(n) ELSE NatText(n)

\* YYYY-MM-DD of the UTC day that holds the instant clk (years 1000..9999)
TodayText(clk) ==
    LET c == CivilFromDays(clk \div SecondsPerDay)
    IN  NatText(c.y) \o <<"-">> \o Pad2(c.m) \o <<"-">> \o Pad2(c.d)

RECURSIVE DatedToday(_, _)
DatedToday(v, today) ==
    IF v = <<>> THEN <<>>
    ELSE IF Head(v).date = today
    THEN <<Head(v)>> \o DatedToday(Tail(v), today)
    ELSE DatedToday(Tail(v), today)

RECURSIVE DatedFrom(_, _, _)
DatedFrom(v, today, atMidnight) ==
    IF v = <<>> THEN <<>>
    ELSE IF StrLess(today, Head(v).date) \/ (atMidnight /\ Head(v).date = today)
    THEN <<Head(v)>> \o DatedFrom(Tail(v), today, atMidnight)
    ELSE DatedFrom(Tail(v), today, atMidnight)

\* C3 as claimed: filterRecentDays(0) returns exactly the Shifts dated on the
\* UTC day of now, in collection order.
C3_OnlyToday ==
    (ret.op = "filterRecentDays" /\ ret.days = 0 /\ ret.err = "none")
    => ret.list = DatedToday(shifts, TodayText(ret.clk))

\* C3 as amended: over YYYY-MM-DD dates, filterRecentDays(0) returns, in
\* collection order, exactly the Shifts dated after the UTC day of now, and
\* those dated on that day only when now is its midnight.
C3_FromNowOn ==
    (ret.op = "filterRecentDays" /\ ret.days = 0 /\ ret.err = "none")
    => ret.list = DatedFrom(shifts, TodayText(ret.clk),
                            ret.clk % SecondsPerDay = 0)

\* C3 witness: past midnight, filterRecentDays(0) left out a Shift dated
\* today and returned one dated later
C3_Witness ==
    /\ ret.op = "filterRecentDays"
    /\ ret.days = 0
    /\ ret.clk % SecondsPerDay # 0
    /\ \E i \in 1..Len(shifts) : shifts[i].date = TodayText(ret.clk)
    /\ ret.list # <<>>
    /\ \A i \in 1..Len(ret.list) : StrLess(TodayText(ret.clk), ret.list[i].date)

RECURSIVE SumPay(_)
SumPay(v) ==
    IF v = <<>> THEN Zero
    ELSE NumAdd(SumPay(SubSeq(v, 1, Len(v) - 1)), pay(v[Len(v)]))

\* the first 7 characters of a date (all of a shorter one)
Prefix7(date) == SubSeq(date, 1, Min(7, Len(date)))

RECURSIVE WithPrefix(_, _)
WithPrefix(v, key) ==
    IF v = <<>> THEN <<>>
    ELSE IF Prefix7(Head(v).date) = key
    THEN <<Head(v)>> \o WithPrefix(Tail(v), key)
    ELSE WithPrefix(Tail(v), key)

\* C9: monthlyTotals() has one entry per distinct 7-character date prefix of
\* the collection, in ascending key order, each holding the sum of pay() of
\* all Shifts with that prefix.
C9_MonthlyTotals ==
    ret.op = "monthlyTotals"
    => /\ \A i \in 1..(Len(ret.map) - 1) :
            StrLess(ret.map[i].key, ret.map[i + 1].key)
       /\ { ret.map[i].key : i \in 1..Len(ret.map) }
            = { Prefix7(shifts[j].date) : j \in 1..Len(shifts) }
       /\ \A i \in 1..Len(ret.map) :
            NumEq(ret.map[i].val, SumPay(WithPrefix(shifts, ret.map[i].key)))

\* C9 witness: the collection (2025-01-05,2,10), (2025-01-20,3,10),
\* (2025-02-01,1,10) gave {2025-01: 50, 2025-02: 10}
C9_Witness ==
    /\ ret.op = "monthlyTotals"
    /\ Len(shifts) = 3
    /\ ret.map = << [key |-> SubSeq(D0105, 1, 7), val |-> MkNum(FALSE, 50, 0)],
                    [key |-> SubSeq(D0201, 1, 7), val |-> MkNum(FALSE, 10, 0)] >>

QueryOps ==
    {"listAllSorted", "filterRecentDays", "totalPay", "monthlyTotals",
     "countHighPay"}

\* C10: a query leaves the collection and the store as they were, and an
\* add persists the collection in insertion order whatever was queried before.
C10_QueriesChangeNothing ==
    [][ /\ (nops' = nops + 1 /\ ret'.op \in QueryOps)
           => (shifts' = shifts /\ store' = store)
        /\ (nops' = nops + 1 /\ ret'.op = "add" /\ ret'.err = "none")
           => store'.content
                = EncodeAll((loaded \o AddedShifts) \o <<ret'.s>>) ]_vars

\* C10 witness: an add right after listAllSorted() returned another order
\* than the collection's; the store holds the collection's order
C10_Witness ==
    /\ Len(calls) >= 2
    /\ calls[Len(calls)] = "add"
    /\ calls[Len(calls) - 1] = "listAllSorted"
    /\ ret.err = "none"
    /\ \E i \in 1..(Len(shifts) - 2) : StrLess(shifts[i + 1].date, shifts[i].date)
    /\ store.content = EncodeAll(shifts)

-----------------------------------------------------------------------------
(* Properties of the codec: C6, C7 *)

\* t is a real number and nothing else: behind leading white space an
\* optional sign, digits with an optional point (a digit at least), an
\* optional exponent of a sign and digits, and then the end of t
IsRealText(t) ==
    LET i1 == AfterSign(t, SkipSpace(t, 1))
        i2 == ScanDigits(t, i1)
        dot == i2 <= Len(t) /\ t[i2] = "."
        i3 == IF dot THEN ScanDigits(t, i2 + 1) ELSE i2
        j1 == AfterSign(t, i3 + 1)
        j2 == ScanDigits(t, j1)
    IN  /\ (i2 - i1) + (IF dot THEN i3 - i2 - 1 ELSE 0) > 0
        /\ \/ i3 = Len(t) + 1
           \/ (i3 <= Len(t) /\ t[i3] = "e" /\ j2 > j1 /\ j2 = Len(t) + 1)

FieldsOf(line) == SplitParts(line, <<>>, <<>>)

\* C6: fromCSV fails with a FormatError on every line of fewer than 3 fields
\* and on every line whose field 2 or 3 is not entirely a real number, and
\* succeeds only when both are.
C6_RejectsNonNumbers ==
    cout.step = "decoded"
    => /\ cout.err \in FormatError \cup {"none"}
       /\ cout.err = "none"
            <=> /\ Len(FieldsOf(cin.line)) >= 3
                /\ IsRealText(FieldsOf(cin.line)[2])
                /\ IsRealText(FieldsOf(cin.line)[3])

\* C7: for a Shift s without a comma in date and note, fromCSV(s.toCSV())
\* equals s field for field.
C7_RoundTrip ==
    cout.step = "roundtrip"
    => (cout.err = "none" /\ ShiftEq(cout.shift, cin.shift))

=============================================================================
